---- MODULE Spec2Model ----
(***************************************************************************)
(* Common_Time: the shared timeframe of several timeframes given in local  *)
(* UTC offsets.  The repository holds two programs:                        *)
(*   - src/src/timesync.py   (TimeSync: the store TIMEFRAMES keyed by id)  *)
(*   - src/common_time.py    (the earlier script: startTimes / endTimes)   *)
(* A run is a run of one of the two; prog says which.  Instants are        *)
(* minutes since 00:00 of day 0.                                           *)
(***************************************************************************)
EXTENDS Integers, Sequences, FiniteSets, TLC

VARIABLES
    prog,         \* "timesync" | "common_time": the script that is running
    pc,           \* "prompt" (the REPL waits for a command) | "exited"
    TIMEFRAMES,   \* timesync.py: the dict, as its items in insertion order
    startTimes,   \* common_time.py: UTC start of each limit
    endTimes,     \* common_time.py: UTC end of each limit
    limit_count,  \* common_time.py: number of limits
    last          \* the last command read, its arguments and what it did

vars == <<prog, pc, TIMEFRAMES, startTimes, endTimes, limit_count, last>>

----------------------------------------------------------------------------
(* Bounds and input domains *)

\* Most timeframes the store (or the lists) may hold.
MaxTimeframes == 3

\* timedelta(days=1), in minutes.
Day == 1440

\* UTC offsets a timeframe may carry (minutes): UTC-01:00, UTC+00:00, UTC+02:00.
Offsets == {-60, 0, 120}

\* timesync.py: local start and end instants (date and time).
\* Starts: day 1 10:00, day 1 12:00.  Ends: day 0 10:00 (a day or more before
\* either start), day 1 12:00.
StartTimes == {Day + 600, Day + 720}
EndTimes == {600, Day + 720}

\* common_time.py: times of day (HHMM of today): 10:00, 12:00.
TimesOfDay == {600, 720}

\* timeframe ids the user types; NoneId stands for timeframe_id=None.
UserIds == {"A"}
NoneId == "<None>"

\* What input() returns at a [N/y] prompt: "y"/"yes" (TRUE) or anything else.
Responses == BOOLEAN

----------------------------------------------------------------------------
(* Helpers on sequences *)

Range(s) == {s[i] : i \in 1..Len(s)}

RemoveAt(s, i) == SubSeq(s, 1, i - 1) \o SubSeq(s, i + 1, Len(s))

MaxOf(S) == CHOOSE x \in S : \A y \in S : y <= x
MinOf(S) == CHOOSE x \in S : \A y \in S : x <= y

\* dict.keys() and list(dict.values())
keys(d) == {d[i].id : i \in 1..Len(d)}
values(d) == [i \in 1..Len(d) |-> d[i].tf]
IndexOf(d, k) == CHOOSE i \in 1..Len(d) : d[i].id = k

\* d[k] = v: a new key goes last, an existing key keeps its place.
setitem(d, k, v) ==
    IF k \in keys(d)
    THEN [d EXCEPT ![IndexOf(d, k)] = [id |-> k, tf |-> v]]
    ELSE Append(d, [id |-> k, tf |-> v])

\* d.pop(k)
pop(d, k) == RemoveAt(d, IndexOf(d, k))

----------------------------------------------------------------------------
(* The record of the last command *)

NoLast ==
    [op |-> "none", id |-> "", dup |-> FALSE, response |-> FALSE,
     utc_offset |-> 0, start_time |-> 0, end_time |-> 0,
     out |-> "", latest_start |-> 0, earliest_end |-> 0, n_before |-> 0]

----------------------------------------------------------------------------
(* timeframe.py (not in the sources): TimeFrame and its normalized times *)

norm_start_of(utc_offset, start_time) == start_time - utc_offset

norm_end_of(utc_offset, start_time, end_time) ==
    IF end_time <= start_time
    THEN (end_time - utc_offset) + Day
    ELSE end_time - utc_offset

\* TimeFrame(...) fails (EmptyWindow) unless norm_start < norm_end.
TimeFrameFails(utc_offset, start_time, end_time) ==
    ~(norm_start_of(utc_offset, start_time)
        < norm_end_of(utc_offset, start_time, end_time))

TimeFrame(utc_offset, start_time, end_time) ==
    [utc_offset |-> utc_offset, start_time |-> start_time, end_time |-> end_time,
     norm_start |-> norm_start_of(utc_offset, start_time),
     norm_end |-> norm_end_of(utc_offset, start_time, end_time)]

get_norm_times(tf) == <<tf.norm_start, tf.norm_end>>

----------------------------------------------------------------------------
(* timesync.py *)

\* The id add_timeframe uses: the default id when timeframe_id is None.
effective_id(timeframe_id, d) ==
    IF timeframe_id = NoneId
    THEN "Timeframe " \o ToString(Len(d) - 1)
    ELSE timeframe_id

\* add_timeframe without the overwrite prompt: an existing id is replaced.
add_timeframe_overwrites(timeframe_id, utc_offset, start_time, end_time, response) ==
    LET id == effective_id(timeframe_id, TIMEFRAMES)
        dup == id \in keys(TIMEFRAMES)
    IN  /\ ~TimeFrameFails(utc_offset, start_time, end_time)
        /\ TIMEFRAMES' = setitem(TIMEFRAMES, id,
                                 TimeFrame(utc_offset, start_time, end_time))
        /\ last' = [NoLast EXCEPT !.op = "add", !.id = timeframe_id, !.dup = dup,
                                  !.response = dup /\ response,
                                  !.utc_offset = utc_offset,
                                  !.start_time = start_time, !.end_time = end_time,
                                  !.out = "added", !.n_before = Len(TIMEFRAMES)]
        /\ UNCHANGED pc

add_timeframe(timeframe_id, utc_offset, start_time, end_time, response) ==
    LET id == effective_id(timeframe_id, TIMEFRAMES)
        dup == id \in keys(TIMEFRAMES)
        a == [NoLast EXCEPT !.op = "add", !.id = timeframe_id, !.dup = dup,
                            !.response = dup /\ response,
                            !.n_before = Len(TIMEFRAMES)]
        l == [a EXCEPT !.utc_offset = utc_offset, !.start_time = start_time,
                       !.end_time = end_time]
    IN  IF dup /\ ~response
        THEN \* "Action aborted. Timeframe entry was not overwritten."
             /\ last' = [a EXCEPT !.out = "aborted"]
             /\ UNCHANGED <<pc, TIMEFRAMES>>
        ELSE IF TimeFrameFails(utc_offset, start_time, end_time)
        THEN \* the constructor raises; nothing in main catches it
             /\ last' = [l EXCEPT !.out = "EmptyWindow"]
             /\ pc' = "exited"
             /\ UNCHANGED TIMEFRAMES
        ELSE /\ TIMEFRAMES' = setitem(TIMEFRAMES, id,
                                      TimeFrame(utc_offset, start_time, end_time))
             /\ last' = [l EXCEPT !.out = "added"]
             /\ UNCHANGED pc

Legacy == <<startTimes, endTimes, limit_count>>

main_add ==
    /\ prog = "timesync" /\ pc = "prompt"
    /\ \E timeframe_id \in UserIds \cup {NoneId}, utc_offset \in Offsets,
          start_time \in StartTimes, end_time \in EndTimes :
          \* input() is read only at the overwrite prompt
          \E response \in IF effective_id(timeframe_id, TIMEFRAMES) \in keys(TIMEFRAMES)
                           THEN Responses ELSE {FALSE} :
             /\ \/ effective_id(timeframe_id, TIMEFRAMES) \in keys(TIMEFRAMES)
                \/ Len(TIMEFRAMES) < MaxTimeframes
             /\ add_timeframe(timeframe_id, utc_offset, start_time, end_time, response)
    /\ UNCHANGED <<prog, Legacy>>

\* The start time of the timeframe at hand, whatever was held.
update_latest_start_last_wins(norm_start, latest_start_time) == norm_start

\* Lines 94-95: keep the later of the two start times.
update_latest_start(norm_start, latest_start_time) ==
    IF norm_start > latest_start_time THEN norm_start ELSE latest_start_time

\* Lines 98-99: keep the earlier of the two end times.
update_earliest_end(norm_end, earliest_end_time) ==
    IF norm_end < earliest_end_time THEN norm_end ELSE earliest_end_time

\* The loop of find_shared_timeframe over timeframes[i..], from <<latest, earliest>>.
RECURSIVE scan_timeframes(_, _, _)
scan_timeframes(timeframes, i, acc) ==
    IF i > Len(timeframes)
    THEN acc
    ELSE scan_timeframes(timeframes, i + 1,
            <<update_latest_start(get_norm_times(timeframes[i])[1], acc[1]),
              update_earliest_end(get_norm_times(timeframes[i])[2], acc[2])>>)

\* <<latest_start_time, earliest_end_time>> after the loop (timeframes not empty).
latest_and_earliest(timeframes) ==
    scan_timeframes(timeframes, 2, get_norm_times(timeframes[1]))

\* None also when the two times are equal.
shared_or_none_exclusive(latest_start_time, earliest_end_time) ==
    IF latest_start_time >= earliest_end_time
    THEN [kind |-> "None", start |-> 0, end |-> 0]
    ELSE [kind |-> "Shared", start |-> latest_start_time, end |-> earliest_end_time]

\* Lines 101-107: None, or the pair.
shared_or_none(latest_start_time, earliest_end_time) ==
    IF latest_start_time > earliest_end_time
    THEN [kind |-> "None", start |-> 0, end |-> 0]
    ELSE [kind |-> "Shared", start |-> latest_start_time, end |-> earliest_end_time]

find_shared_timeframe(d) ==
    LET le == latest_and_earliest(values(d))
    IN  shared_or_none(le[1], le[2])

main_find ==
    /\ prog = "timesync" /\ pc = "prompt"
    /\ IF Len(TIMEFRAMES) <= 1
       THEN \* "Provide at least 2 timeframes to find a shared timeframe."
            last' = [NoLast EXCEPT !.op = "find", !.out = "InsufficientTimeframes",
                                   !.n_before = Len(TIMEFRAMES)]
       ELSE LET le == latest_and_earliest(values(TIMEFRAMES))
                r == find_shared_timeframe(TIMEFRAMES)
            IN  last' = [NoLast EXCEPT !.op = "find", !.out = r.kind,
                                       !.start_time = r.start, !.end_time = r.end,
                                       !.latest_start = le[1], !.earliest_end = le[2],
                                       !.n_before = Len(TIMEFRAMES)]
    /\ UNCHANGED <<prog, pc, TIMEFRAMES, Legacy>>

\* remove_timeframe that drops the newest entry (popitem) instead of the named one.
remove_timeframe_popitem(timeframe_id) ==
    IF timeframe_id \notin keys(TIMEFRAMES)
    THEN /\ last' = [NoLast EXCEPT !.op = "remove", !.id = timeframe_id,
                                   !.out = "False", !.n_before = Len(TIMEFRAMES)]
         /\ UNCHANGED TIMEFRAMES
    ELSE /\ TIMEFRAMES' = SubSeq(TIMEFRAMES, 1, Len(TIMEFRAMES) - 1)
         /\ last' = [NoLast EXCEPT !.op = "remove", !.id = timeframe_id,
                                   !.out = "True", !.n_before = Len(TIMEFRAMES)]

remove_timeframe(timeframe_id) ==
    IF timeframe_id \notin keys(TIMEFRAMES)
    THEN /\ last' = [NoLast EXCEPT !.op = "remove", !.id = timeframe_id,
                                   !.out = "False", !.n_before = Len(TIMEFRAMES)]
         /\ UNCHANGED TIMEFRAMES
    ELSE /\ TIMEFRAMES' = pop(TIMEFRAMES, timeframe_id)
         /\ last' = [NoLast EXCEPT !.op = "remove", !.id = timeframe_id,
                                   !.out = "True", !.n_before = Len(TIMEFRAMES)]

\* Every id a command may name: the user's and the default ones.
AllIds == UserIds \cup {effective_id(NoneId, [i \in 1..n |-> 0]) : n \in 0..MaxTimeframes}

main_remove ==
    /\ prog = "timesync" /\ pc = "prompt"
    /\ \E timeframe_id \in AllIds : remove_timeframe(timeframe_id)
    /\ UNCHANGED <<prog, pc, Legacy>>

\* reset that clears whatever the answer.
reset_unprompted(response) ==
    /\ TIMEFRAMES' = <<>>
    /\ last' = [NoLast EXCEPT !.op = "reset", !.response = response,
                              !.out = "True", !.n_before = Len(TIMEFRAMES)]

reset(response) ==
    IF response
    THEN /\ TIMEFRAMES' = <<>>
         /\ last' = [NoLast EXCEPT !.op = "reset", !.response = response,
                                   !.out = "True", !.n_before = Len(TIMEFRAMES)]
    ELSE /\ last' = [NoLast EXCEPT !.op = "reset", !.response = response,
                                   !.out = "False", !.n_before = Len(TIMEFRAMES)]
         /\ UNCHANGED TIMEFRAMES

main_reset ==
    /\ prog = "timesync" /\ pc = "prompt"
    /\ \E response \in Responses : reset(response)
    /\ UNCHANGED <<prog, pc, Legacy>>

----------------------------------------------------------------------------
(* common_time.py *)

\* The time-zone service's answer for a location whose offset is utc_offset:
\* the same instant on the UTC clock.
convertToUTC(utc_offset, BASE_DATETIME) == BASE_DATETIME - utc_offset

\* The end time taken as given, never moved to the next day.
end_to_convert_same_day(start_datetime_object, end_datetime_object) ==
    end_datetime_object

\* The next day only when the end is strictly before the start.
end_to_convert_strict(start_datetime_object, end_datetime_object) ==
    IF start_datetime_object <= end_datetime_object
    THEN end_datetime_object
    ELSE end_datetime_object + Day

\* Lines 74-78: the end time that is converted.
end_to_convert(start_datetime_object, end_datetime_object) ==
    IF start_datetime_object < end_datetime_object
    THEN end_datetime_object
    ELSE end_datetime_object + Day

add(utc_offset, start_datetime_object, end_datetime_object) ==
    /\ startTimes' = Append(startTimes, convertToUTC(utc_offset, start_datetime_object))
    /\ endTimes' = Append(endTimes,
           convertToUTC(utc_offset,
                        end_to_convert(start_datetime_object, end_datetime_object)))
    /\ limit_count' = limit_count + 1
    /\ last' = [NoLast EXCEPT !.op = "add", !.utc_offset = utc_offset,
                              !.start_time = start_datetime_object,
                              !.end_time = end_datetime_object,
                              !.out = "added", !.n_before = Len(startTimes)]

loop_add ==
    /\ prog = "common_time" /\ pc = "prompt"
    /\ Len(startTimes) < MaxTimeframes
    /\ \E utc_offset \in Offsets, s \in TimesOfDay, e \in TimesOfDay :
          add(utc_offset, s, e)
    /\ UNCHANGED <<prog, pc, TIMEFRAMES>>

clear ==
    /\ startTimes' = <<>>
    /\ endTimes' = <<>>
    /\ limit_count' = 0
    /\ last' = [NoLast EXCEPT !.op = "clear", !.out = "cleared",
                              !.n_before = Len(startTimes)]

loop_clear ==
    /\ prog = "common_time" /\ pc = "prompt"
    /\ clear
    /\ UNCHANGED <<prog, pc, TIMEFRAMES>>

\* Lines 100-102: one step of the loop commented "Finding the latest start time".
update_op_startTime(op_startTime, item) ==
    IF op_startTime > item THEN item ELSE op_startTime

\* Lines 105-107: one step of the loop commented "Finding the earliest end time".
update_op_endTime(op_endTime, item) ==
    IF op_endTime < item THEN item ELSE op_endTime

RECURSIVE scan_startTimes(_, _, _)
scan_startTimes(items, i, op_startTime) ==
    IF i > Len(items)
    THEN op_startTime
    ELSE scan_startTimes(items, i + 1, update_op_startTime(op_startTime, items[i]))

RECURSIVE scan_endTimes(_, _, _)
scan_endTimes(items, i, op_endTime) ==
    IF i > Len(items)
    THEN op_endTime
    ELSE scan_endTimes(items, i + 1, update_op_endTime(op_endTime, items[i]))

\* <<op_startTime, op_endTime>> after the two loops of run() (lists not empty).
run_locals(starts, ends) ==
    <<scan_startTimes(starts, 1, starts[1]), scan_endTimes(ends, 1, ends[1])>>

\* run(): startTimes[0] raises IndexError on an empty list; delta.hours raises
\* AttributeError (a timedelta has no such attribute) before anything is printed.
run ==
    IF Len(startTimes) = 0
    THEN /\ last' = [NoLast EXCEPT !.op = "run", !.out = "IndexError"]
         /\ pc' = "exited"
    ELSE LET op_startTime == run_locals(startTimes, endTimes)[1]
             op_endTime == run_locals(startTimes, endTimes)[2]
             l == [NoLast EXCEPT !.op = "run", !.latest_start = op_startTime,
                                 !.earliest_end = op_endTime,
                                 !.n_before = Len(startTimes)]
         IN  IF op_startTime < op_endTime
             THEN /\ last' = [l EXCEPT !.out = "AttributeError",
                                       !.start_time = op_startTime,
                                       !.end_time = op_endTime]
                  /\ pc' = "exited"
             ELSE \* "No common time frame for the set limits."
                  /\ last' = [l EXCEPT !.out = "None"]
                  /\ UNCHANGED pc

loop_run ==
    /\ prog = "common_time" /\ pc = "prompt"
    /\ run
    /\ UNCHANGED <<prog, TIMEFRAMES, Legacy>>

----------------------------------------------------------------------------

Init ==
    /\ prog \in {"timesync", "common_time"}
    /\ pc = "prompt"
    /\ TIMEFRAMES = <<>>
    /\ startTimes = <<>>
    /\ endTimes = <<>>
    /\ limit_count = 0
    /\ last = NoLast

\* The commands that change nothing held (ls, vis, clear screen, help, an
\* invalid command) are stuttering steps.
Next ==
    \/ main_add
    \/ main_find
    \/ main_remove
    \/ main_reset
    \/ loop_add
    \/ loop_clear
    \/ loop_run

Spec == Init /\ [][Next]_vars

----------------------------------------------------------------------------
(* What the claims speak of *)

\* The normalized (UTC) start and end times held, whichever script runs.
NormStarts ==
    IF prog = "timesync"
    THEN {TIMEFRAMES[i].tf.norm_start : i \in 1..Len(TIMEFRAMES)}
    ELSE Range(startTimes)

NormEnds ==
    IF prog = "timesync"
    THEN {TIMEFRAMES[i].tf.norm_end : i \in 1..Len(TIMEFRAMES)}
    ELSE Range(endTimes)

Held == IF prog = "timesync" THEN Len(TIMEFRAMES) ELSE Len(startTimes)

\* The last command asked for the shared interval (find/run/sync, or run).
Computed == last.op \in {"find", "run"}

\* The injective maps of 1..n onto itself.
Perms(n) == {p \in [1..n -> 1..n] : \A i, j \in 1..n : p[i] = p[j] => i = j}

Permuted(s, p) == [i \in 1..Len(s) |-> s[p[i]]]

----------------------------------------------------------------------------
(* C1 *)

\* C1: for every store of at least 2 timeframes, computing the shared
\* interval yields latestStart = the maximum of the normalized starts and
\* earliestEnd = the minimum of the normalized ends, and whenever
\* latestStart < earliestEnd the result is exactly that pair.
C1_LatestStartEarliestEnd ==
    (Computed /\ Held >= 2) =>
        /\ last.latest_start = MaxOf(NormStarts)
        /\ last.earliest_end = MinOf(NormEnds)
        /\ (MaxOf(NormStarts) < MinOf(NormEnds) =>
               /\ last.out = "Shared"
               /\ last.start_time = MaxOf(NormStarts)
               /\ last.end_time = MinOf(NormEnds))

\* The same statement of timesync.py alone (find_shared_timeframe).
TimesyncLatestStartEarliestEnd ==
    prog = "timesync" => C1_LatestStartEarliestEnd

----------------------------------------------------------------------------
(* C2 *)

\* C2 as stated, of timesync.py: with at least 2 timeframes, latestStart >=
\* earliestEnd (the touching case included) gives None, never a zero-length
\* interval.
C2_NoneWhenNotBefore ==
    (prog = "timesync" /\ Computed /\ Held >= 2
        /\ MaxOf(NormStarts) >= MinOf(NormEnds)) => last.out = "None"

\* C2 (amended): in timesync.py, with at least 2 timeframes, the result is
\* None when latestStart > earliestEnd; in the touching case latestStart =
\* earliestEnd it is the zero-length pair (latestStart, earliestEnd).
C2_NoneOnlyWhenAfter ==
    (prog = "timesync" /\ Computed /\ Held >= 2) =>
        /\ (MaxOf(NormStarts) > MinOf(NormEnds) => last.out = "None")
        /\ (MaxOf(NormStarts) = MinOf(NormEnds) =>
               /\ last.out = "Shared"
               /\ last.start_time = MaxOf(NormStarts)
               /\ last.end_time = MinOf(NormEnds))

C2_Witness ==
    /\ prog = "timesync" /\ Computed /\ Held >= 2
    /\ MaxOf(NormStarts) = MinOf(NormEnds)
    /\ last.out = "Shared"

----------------------------------------------------------------------------
(* C3 *)

\* C3: with 0 or 1 timeframes held, a request for the shared interval is
\* signalled as InsufficientTimeframes: nothing is computed, no fault is
\* raised (the script is still at its prompt).
C3_InsufficientTimeframes ==
    (Computed /\ Held <= 1) =>
        /\ last.out = "InsufficientTimeframes"
        /\ pc = "prompt"

\* The same statement of timesync.py alone (main's guard).
TimesyncInsufficientTimeframes ==
    prog = "timesync" => C3_InsufficientTimeframes

----------------------------------------------------------------------------
(* C4 *)

UniqueIds ==
    \A i, j \in 1..Len(TIMEFRAMES) :
        TIMEFRAMES[i].id = TIMEFRAMES[j].id => i = j

\* C4: an add under an id already in the store, not confirmed by the
\* caller, leaves the store as it was; and every id maps to exactly one
\* timeframe, whatever was done.
C4_NoSilentOverwrite ==
    /\ []UniqueIds
    /\ [][(last'.op = "add" /\ last'.dup /\ ~last'.response)
            => TIMEFRAMES' = TIMEFRAMES]_vars

C4_Witness ==
    /\ last.op = "add" /\ last.dup /\ ~last.response
    /\ last.out = "aborted"
    /\ Len(TIMEFRAMES) >= 2

----------------------------------------------------------------------------
(* C5 *)

Without(d, k) == SelectSeq(d, LAMBDA e : e.id # k)

\* C5: remove of an id not in the store returns False and leaves the store
\* as it was (so does a second remove of the id just removed); remove of a
\* present id deletes that entry and no other.
C5_RemoveFrame ==
    [][last'.op = "remove" =>
          /\ (last'.id \notin keys(TIMEFRAMES) =>
                 last'.out = "False" /\ TIMEFRAMES' = TIMEFRAMES)
          /\ (last'.id \in keys(TIMEFRAMES) =>
                 /\ last'.out = "True"
                 /\ TIMEFRAMES' = Without(TIMEFRAMES, last'.id)
                 /\ Len(TIMEFRAMES') = Len(TIMEFRAMES) - 1)
          /\ ((last.op = "remove" /\ last.out = "True" /\ last'.id = last.id)
                 => last'.out = "False")]_vars

C5_Witness ==
    /\ last.op = "remove" /\ last.out = "False"
    /\ last.id \notin keys(TIMEFRAMES)
    /\ Len(TIMEFRAMES) = 2 /\ last.n_before = 2

----------------------------------------------------------------------------
(* C6 *)

\* C6 as stated: every invocation of reset succeeds and leaves the store
\* empty.
C6_ResetAlwaysClears ==
    last.op \in {"reset", "clear"} =>
        /\ last.out \in {"True", "cleared"}
        /\ Held = 0

\* C6 (amended): reset() clears the store and returns True when the answer
\* to its confirmation prompt is y/yes, and otherwise returns False and
\* leaves the store as it was; clear() of common_time.py always empties the
\* lists.
C6_ResetClearsWhenConfirmed ==
    [][/\ (last'.op = "reset" /\ last'.response) =>
              (last'.out = "True" /\ TIMEFRAMES' = <<>>)
       /\ (last'.op = "reset" /\ ~last'.response) =>
              (last'.out = "False" /\ TIMEFRAMES' = TIMEFRAMES)
       /\ last'.op = "clear" =>
              (startTimes' = <<>> /\ endTimes' = <<>> /\ limit_count' = 0)]_vars

C6_Witness ==
    /\ last.op = "reset" /\ last.response /\ last.out = "True"
    /\ last.n_before >= 2 /\ TIMEFRAMES = <<>>

----------------------------------------------------------------------------
(* C7 *)

\* C7: the shared interval does not depend on the order in which the
\* timeframes were added: the result computed for at least 2 held timeframes
\* is the result for every permutation of them.
C7_OrderIndependent ==
    /\ (prog = "timesync" /\ Computed /\ Len(TIMEFRAMES) >= 2) =>
           \A p \in Perms(Len(TIMEFRAMES)) :
               find_shared_timeframe(Permuted(TIMEFRAMES, p))
                   = [kind |-> last.out, start |-> last.start_time,
                      end |-> last.end_time]
    /\ (prog = "common_time" /\ Computed /\ Len(startTimes) >= 2) =>
           \A p \in Perms(Len(startTimes)) :
               run_locals(Permuted(startTimes, p), Permuted(endTimes, p))
                   = <<last.latest_start, last.earliest_end>>

C7_Witness ==
    /\ prog = "timesync" /\ Len(TIMEFRAMES) = 3
    /\ last.op = "find" /\ last.out = "Shared"
    /\ last.start_time < last.end_time
    /\ Cardinality({get_norm_times(TIMEFRAMES[i].tf) : i \in 1..3}) = 3

----------------------------------------------------------------------------
(* C8 *)

\* C8: every timeframe held has utcStart < utcEnd, whatever was added,
\* removed or reset; an add whose window would be zero-length or inverted
\* is rejected and stores nothing.
C8_StartBeforeEnd ==
    /\ \A i \in 1..Len(TIMEFRAMES) :
           TIMEFRAMES[i].tf.norm_start < TIMEFRAMES[i].tf.norm_end
    /\ Len(startTimes) = Len(endTimes)
    /\ \A i \in 1..Len(startTimes) : startTimes[i] < endTimes[i]
    /\ (last.op = "add" /\ last.out = "EmptyWindow") =>
           Len(TIMEFRAMES) = last.n_before
    /\ (prog = "timesync" /\ last.op = "add" /\ last.out = "added") =>
           ~TimeFrameFails(last.utc_offset, last.start_time, last.end_time)

C8_Witness ==
    \/ /\ prog = "timesync" /\ last.op = "add" /\ last.out = "EmptyWindow"
       /\ last.n_before >= 1
    \/ /\ prog = "common_time" /\ last.op = "add"
       /\ last.end_time <= last.start_time /\ Len(startTimes) >= 2

----------------------------------------------------------------------------
(* C9 *)

\* The length the claim gives a window from its local start and end.
local_span(start_time, end_time) ==
    IF end_time <= start_time
    THEN (end_time + Day) - start_time
    ELSE end_time - start_time

\* C9: a timeframe added by add() with local end <= local start (overnight)
\* is held with utcEnd - utcStart = (localEnd + 24h) - localStart; with
\* end > start, utcEnd - utcStart = localEnd - localStart.
C9_OvernightSpan ==
    (prog = "common_time" /\ last.op = "add") =>
        endTimes[Len(endTimes)] - startTimes[Len(startTimes)]
            = local_span(last.start_time, last.end_time)

C9_Witness ==
    /\ prog = "common_time" /\ last.op = "add"
    /\ last.end_time <= last.start_time
    /\ last.utc_offset # 0

----------------------------------------------------------------------------
(* C10 *)

\* C10: the default id add_timeframe makes for timeframe_id None is not yet
\* a key of the store, so the add is never met by the overwrite prompt and
\* the store grows by one.
C10_DefaultIdIsFresh ==
    (last.op = "add" /\ last.id = NoneId) =>
        /\ ~last.dup
        /\ (last.out = "added" => Len(TIMEFRAMES) = last.n_before + 1)

====
